---- MODULE Spec2Model ----
(***************************************************************************)
(* A model of bravo's BravoFactory (src/bravo/factories/beta.py): the      *)
(* username table, the entity-id counter, and the in-game clock with its   *)
(* season selection.                                                       *)
(*                                                                         *)
(* Python objects are modelled by small integers: connections are          *)
(* 1..MaxConns in the order buildProtocol creates them, entities are       *)
(* 1..MaxEnts in the order create_entity creates them, usernames are       *)
(* 1..MaxNames.  The dict self.protocols is a function whose DOMAIN is the *)
(* set of registered names.                                                *)
(*                                                                         *)
(* The clock arithmetic of update_time is done in Python floats; here the  *)
(* tick counter is a whole number of ticks and the wall-clock delta a      *)
(* whole number of seconds.                                                *)
(***************************************************************************)
EXTENDS Integers, Sequences, FiniteSets, TLC

\* ---------------------------------------------------------------- bounds
MaxConns == 2
MaxNames == 3
MaxEnts == 2
MaxEid == 5
MaxAcc == 5400
MaxStacks == 3
MaxAutomatons == 2
MaxPlugins == 2
MaxTargets == 2

\* ------------------------------------------------------ program constants
\* while self.time > 24000: self.time -= 24000
DayTicks == 24000
\* while self.day > 360: self.day -= 360
YearDays == 360
\* self.time += 20 * (t - self.timestamp)
TicksPerSecond == 20
\* eid = 1 (class attribute)
FirstEid == 1
\* entities[name](eid=0, ...): 0 is "no id yet" (if not entity.eid)
NoEid == 0
\* a connection's username before any set_username (None)
NoName == 0
\* self.world.season = None
NoSeason == 0
\* "no connection": the value of a lookup that finds nothing
NoConn == 0

Conns == 1..MaxConns
Names == 1..MaxNames
Ents == 1..MaxEnts
\* the entities create_entity can make for itself and for give
AllEnts == 1..(MaxEnts + MaxStacks)
Automatons == 1..MaxAutomatons
Plugins == 1..MaxPlugins
Targets == 1..MaxTargets

VARIABLES
    protocols,      \* self.protocols: username -> connection
    kind,           \* per connection: "none" (not built), "full", "banned"
    username,       \* per connection: protocol.username
    peid,           \* per connection: protocol.eid
    eid,            \* self.eid, the id counter
    ent,            \* per entity: [made, eid, x, z, quantity, destroyed]
    chunkEntities,  \* per chunk: chunk.entities
    pending,        \* chunk requests whose Deferred has not fired yet
    failed,         \* chunk requests whose Deferred failed
    assigned,       \* the ids register_entity handed out, in call order
    started,        \* startFactory has run
    worldTime,      \* self.world.time, the stored time
    seasons,        \* self.seasons: the start day of each configured season
    time,           \* self.time
    day,            \* self.day
    season,         \* self.world.season: an index into seasons, or NoSeason
    decomp,         \* the clock at a reference point and the seconds since
    chunks,         \* per connection: player.chunks, the chunks it has loaded
    damage,         \* per chunk: the damage record (the damaged blocks)
    cache,          \* the chunks in self.world.chunk_cache
    dirty,          \* the chunks in self.world.dirty_chunk_cache
    life,           \* automatons, time loop and world store: running or not
    hookConf,       \* the configured use hooks and the targets of each
    useHooks,       \* self.use_hooks: target -> the plugins for it, in order
    last            \* the most recent call, its arguments and its result

vars == <<protocols, kind, username, peid, eid, ent, chunkEntities, pending,
          failed, assigned, started, worldTime, seasons, time, day, season, decomp,
          chunks, damage, cache, dirty, life, hookConf, useHooks, last>>

connVars == <<protocols, kind, username, peid>>
entVars == <<ent, chunkEntities, pending, failed>>
clockVars == <<started, worldTime, seasons, time, day, season, decomp>>
extVars == <<chunks, damage, cache, dirty, life, hookConf, useHooks>>

\* ------------------------------------------------------------ dict helpers
\* del d[k]
Del(d, k) == [x \in DOMAIN d \ {k} |-> d[x]]

\* d[k] = v
Put(d, k, v) == [x \in DOMAIN d \cup {k} |-> IF x = k THEN v ELSE d[x]]

\* the connection a name is registered to, NoConn if the name is free
Holder(d, k) == IF k \in DOMAIN d THEN d[k] ELSE NoConn

NoCall == [op |-> "none"]

\* block coordinates an entity can be created at, and the chunk that holds
\* a block: bigx = entity.location.x // 16, bigz = entity.location.z // 16
BlockXs == {15, 16}
BlockZs == {0}
ChunkOf(x, z) == <<x \div 16, z \div 16>>
ChunkKeys == {ChunkOf(x, z) : x \in BlockXs, z \in BlockZs}

\* ------------------------------------------------------------------- Init
\* The times the world store can hold when it starts, and the season
\* configurations (the start day of each configured season, in the order
\* of the configuration's list).
StoredTimes == {0, 6000, 23990}
SeasonConfigs == {<<>>, <<0, 90, 180, 270>>, <<180, 90>>, <<90, 90>>}

\* The factory after __init__ (class attributes time = 0, day = 0, eid = 1,
\* self.protocols = dict()); no plugin is registered and the world store is
\* not started yet.
InitFactory ==
    /\ protocols = <<>>
    /\ kind = [c \in Conns |-> "none"]
    /\ username = [c \in Conns |-> NoName]
    /\ peid = [c \in Conns |-> NoEid]
    /\ eid = FirstEid
    /\ ent = [e \in AllEnts |->
                [made |-> FALSE, eid |-> NoEid, x |-> 0, z |-> 0,
                 quantity |-> 0, destroyed |-> FALSE]]
    /\ chunkEntities = [k \in ChunkKeys |-> {}]
    /\ pending = {}
    /\ failed = {}
    /\ assigned = <<>>
    /\ started = FALSE
    /\ worldTime = 0
    /\ seasons = <<>>
    /\ time = 0
    /\ day = 0
    /\ season = NoSeason
    /\ decomp = [on |-> FALSE, time |-> 0, day |-> 0, season |-> NoSeason,
                 acc |-> 0, parts |-> 0, boundary |-> FALSE]
    /\ chunks = [c \in Conns |-> {}]
    /\ damage = [k \in ChunkKeys |-> {}]
    /\ cache = {}
    /\ dirty = {}
    /\ life = [automatons |-> [a \in Automatons |-> "idle"],
               loop |-> "none", world |-> "new", saved |-> -1, log |-> <<>>]
    /\ useHooks = [t \in Targets |-> <<>>]
    /\ last = NoCall

\* no use hook is configured
NoHooks == [order |-> <<>>, targets |-> [p \in Plugins |-> {}]]

Init == InitFactory /\ hookConf = NoHooks

\* the sequences of distinct plugins: the configured use hooks, in the order
\* retrieve_named_plugins returns them
RECURSIVE Orders(_)
Orders(n) ==
    IF n = 0
    THEN {<<>>}
    ELSE LET shorter == Orders(n - 1)
         IN  shorter \cup
             {Append(o, p) : o \in {q \in shorter : Len(q) = n - 1},
                             p \in Plugins}

DistinctOrders ==
    {o \in Orders(MaxPlugins) :
        \A i, j \in 1..Len(o) : i # j => o[i] # o[j]}

HookConfigs ==
    {[order |-> o, targets |-> t] :
        o \in DistinctOrders, t \in [Plugins -> SUBSET Targets]}

\* The factory after __init__, under any configuration of use hooks.
InitHooks == InitFactory /\ hookConf \in HookConfigs

\* --------------------------------------------------------- register_entity
\* if not entity.eid: self.eid += 1; entity.eid = self.eid
\* The result: the object's eid and the factory's counter after the call.
RegisterEntity_noIncrement(e, counter) ==
    IF e = NoEid
    THEN [eid |-> counter, counter |-> counter]
    ELSE [eid |-> e, counter |-> counter]

RegisterEntity_noWriteBack(e, counter) ==
    IF e = NoEid
    THEN [eid |-> counter + 1, counter |-> counter]
    ELSE [eid |-> e, counter |-> counter]

RegisterEntity_always(e, counter) ==
    [eid |-> counter + 1, counter |-> counter + 1]

RegisterEntity(e, counter) ==
    IF e = NoEid
    THEN [eid |-> counter + 1, counter |-> counter + 1]
    ELSE [eid |-> e, counter |-> counter]

\* the log of ids handed out, extended when the call assigned one
Assigned(e, r) == IF e = NoEid THEN Append(assigned, r.eid) ELSE assigned

\* ------------------------------------------------------------ set_username
\* The result of set_username(protocol, name) on the table P when
\* protocol.username is old: the table, protocol.username and the return
\* value after the call.
SetUsername_deleteFirst(P, old, protocol, name) ==
    LET P1 == IF old \in DOMAIN P THEN Del(P, old) ELSE P
    IN  IF name \in DOMAIN P
        THEN [protocols |-> P1, username |-> old, ret |-> FALSE]
        ELSE [protocols |-> Put(P1, name, protocol), username |-> name,
              ret |-> TRUE]

SetUsername_keepOld(P, old, protocol, name) ==
    IF name \in DOMAIN P
    THEN [protocols |-> P, username |-> old, ret |-> FALSE]
    ELSE [protocols |-> Put(P, name, protocol), username |-> name,
          ret |-> TRUE]

SetUsername_allowOwn(P, old, protocol, name) ==
    IF name \in DOMAIN P /\ P[name] # protocol
    THEN [protocols |-> P, username |-> old, ret |-> FALSE]
    ELSE LET P1 == IF old \in DOMAIN P THEN Del(P, old) ELSE P
         IN  [protocols |-> Put(P1, name, protocol), username |-> name,
              ret |-> TRUE]

SetUsername_noRename(P, old, protocol, name) ==
    IF name \in DOMAIN P
    THEN [protocols |-> P, username |-> old, ret |-> FALSE]
    ELSE LET P1 == IF old \in DOMAIN P THEN Del(P, old) ELSE P
         IN  [protocols |-> Put(P1, name, protocol), username |-> old,
              ret |-> TRUE]

SetUsername(P, old, protocol, name) ==
    IF name \in DOMAIN P
    THEN [protocols |-> P, username |-> old, ret |-> FALSE]
    ELSE LET P1 == IF old \in DOMAIN P THEN Del(P, old) ELSE P
         IN  [protocols |-> Put(P1, name, protocol), username |-> name,
              ret |-> TRUE]

\* ----------------------------------------------------------------- actions
\* The connection object the next buildProtocol call creates.
NextConn == Cardinality({c \in Conns : kind[c] # "none"}) + 1

\* the peer hosts, and the ban lists load_plugin_data("banned_ips") gives
Addrs == {1, 2}
BanLists == SUBSET Addrs

\* buildProtocol(addr) when the ban list is banned and the new protocol's
\* eid is e: a BannedProtocol, returned before register_entity is reached,
\* for a banned host; a BravoProtocol, registered as an entity, for any
\* other.  The result: the kind of protocol, its eid and the counter.
BuildProtocol_registerFirst(addr, banned, e, counter) ==
    LET r == RegisterEntity(e, counter)
    IN  IF addr \in banned
        THEN [kind |-> "banned", eid |-> r.eid, counter |-> r.counter]
        ELSE [kind |-> "full", eid |-> r.eid, counter |-> r.counter]

BuildProtocol_noRegister(addr, banned, e, counter) ==
    IF addr \in banned
    THEN [kind |-> "banned", eid |-> e, counter |-> counter]
    ELSE [kind |-> "full", eid |-> e, counter |-> counter]

BuildProtocol(addr, banned, e, counter) ==
    IF addr \in banned
    THEN [kind |-> "banned", eid |-> e, counter |-> counter]
    ELSE LET r == RegisterEntity(e, counter)
         IN  [kind |-> "full", eid |-> r.eid, counter |-> r.counter]

buildProtocolCall(addr, banned) ==
    /\ NextConn \in Conns
    /\ LET r == BuildProtocol(addr, banned, peid[NextConn], eid)
       IN  /\ kind' = [kind EXCEPT ![NextConn] = r.kind]
           /\ peid' = [peid EXCEPT ![NextConn] = r.eid]
           /\ eid' = r.counter
           /\ assigned' = IF r.eid # peid[NextConn]
                          THEN Append(assigned, r.eid) ELSE assigned
    /\ last' = [op |-> "buildProtocol", banned |-> addr \in banned]
    /\ UNCHANGED <<protocols, username>>
    /\ UNCHANGED <<entVars, clockVars, extVars>>

\* buildProtocol(addr) for an address on the ban list
buildProtocolBanned ==
    \E addr \in Addrs, banned \in BanLists :
        /\ addr \in banned
        /\ buildProtocolCall(addr, banned)

\* buildProtocol(addr) for any other address
buildProtocolFull ==
    /\ eid < MaxEid
    /\ \E addr \in Addrs, banned \in BanLists :
        /\ addr \notin banned
        /\ buildProtocolCall(addr, banned)

buildProtocol == buildProtocolBanned \/ buildProtocolFull

set_username(c, n) ==
    /\ kind[c] = "full"
    /\ LET r == SetUsername(protocols, username[c], c, n)
       IN  /\ protocols' = r.protocols
           /\ username' = [username EXCEPT ![c] = r.username]
           /\ last' = [op |-> "set_username", c |-> c, n |-> n,
                       ret |-> r.ret, old |-> username[c],
                       holder |-> Holder(protocols, n)]
    /\ UNCHANGED <<kind, peid, eid, assigned>>
    /\ UNCHANGED <<entVars, clockVars, extVars>>

SetUsernameCall == \E c \in Conns, n \in Names : set_username(c, n)

\* set_username by a connection for a name no other connection asks for
JoinCall == \E c \in Conns : set_username(c, c)

\* The entity object the next create_entity call creates.
NextEnt == Cardinality({e \in AllEnts : ent[e].made}) + 1

\* the index of the entity object the next create_entity call creates,
\* given the entities E made so far
NextEntOf(E) == Cardinality({e \in AllEnts : E[e].made}) + 1

CreateEntity_attachFirst(S, x, z, q, L) ==
    LET e == NextEntOf(S.ent)
        r == RegisterEntity(NoEid, S.eid)
        k == ChunkOf(x, z)
    IN  [ent |-> [S.ent EXCEPT ![e] =
                    [made |-> TRUE, eid |-> r.eid, x |-> x, z |-> z,
                     quantity |-> q, destroyed |-> FALSE]],
         eid |-> r.counter,
         assigned |-> Append(S.assigned, r.eid),
         pending |-> IF k \in L
                     THEN S.pending
                     ELSE S.pending \cup
                            {[cb |-> "add", e |-> e, chunk |-> k]},
         chunkEntities |-> [S.chunkEntities EXCEPT ![k] = @ \cup {e}]]

\* create_entity(x, y, z, name, quantity=q) on S, the entities, the id
\* counter and the chunks' entity sets: the entity is built with eid = 0,
\* registered, and its chunk requested; chunk.entities.add(entity) runs
\* when the request's Deferred fires, which is at once, inside addCallback,
\* for a chunk the world store already holds (L, the loaded chunks).
CreateEntity(S, x, z, q, L) ==
    LET e == NextEntOf(S.ent)
        r == RegisterEntity(NoEid, S.eid)
        k == ChunkOf(x, z)
    IN  [ent |-> [S.ent EXCEPT ![e] =
                    [made |-> TRUE, eid |-> r.eid, x |-> x, z |-> z,
                     quantity |-> q, destroyed |-> FALSE]],
         eid |-> r.counter,
         assigned |-> Append(S.assigned, r.eid),
         pending |-> IF k \in L
                     THEN S.pending
                     ELSE S.pending \cup
                            {[cb |-> "add", e |-> e, chunk |-> k]},
         chunkEntities |-> IF k \in L
                           THEN [S.chunkEntities EXCEPT ![k] = @ \cup {e}]
                           ELSE S.chunkEntities]

\* the state create_entity works on
EntityState ==
    [ent |-> ent, eid |-> eid, assigned |-> assigned, pending |-> pending,
     chunkEntities |-> chunkEntities]

create_entity(x, z) ==
    /\ NextEnt \in Ents
    /\ eid < MaxEid
    /\ LET r == CreateEntity(EntityState, x, z, 0, cache \cup dirty)
       IN  /\ ent' = r.ent
           /\ eid' = r.eid
           /\ assigned' = r.assigned
           /\ pending' = r.pending
           /\ chunkEntities' = r.chunkEntities
    /\ last' = [op |-> "create_entity"]
    /\ UNCHANGED <<failed, connVars, clockVars, extVars>>

CreateEntityCall == \E x \in BlockXs, z \in BlockZs : create_entity(x, z)

\* destroy_entity(entity): the chunk is requested and
\* chunk.entities.discard(entity) runs when the Deferred fires.  An entity
\* is destroyed once.
destroy_entity(e) ==
    /\ ent[e].made
    /\ ~ent[e].destroyed
    /\ ent' = [ent EXCEPT ![e].destroyed = TRUE]
    /\ pending' = pending \cup
                    {[cb |-> "discard", e |-> e,
                      chunk |-> ChunkOf(ent[e].x, ent[e].z)]}
    /\ last' = [op |-> "destroy_entity"]
    /\ UNCHANGED <<eid, chunkEntities, failed, assigned>>
    /\ UNCHANGED <<connVars, clockVars, extVars>>

DestroyEntityCall == \E e \in AllEnts : destroy_entity(e)

\* A chunk request's Deferred fires and its callback runs.
ChunkLoaded(req) ==
    /\ req \in pending
    /\ pending' = pending \ {req}
    /\ chunkEntities' =
          [chunkEntities EXCEPT ![req.chunk] =
              IF req.cb = "add" THEN @ \cup {req.e} ELSE @ \ {req.e}]
    /\ last' = [op |-> "chunk_loaded"]
    /\ UNCHANGED <<ent, eid, failed, assigned, connVars, clockVars, extVars>>

ChunkLoadedCall == \E req \in pending : ChunkLoaded(req)

\* register_entity(entity) on a connection that is already registered
register_entity_conn(c) ==
    /\ kind[c] = "full"
    /\ LET r == RegisterEntity(peid[c], eid)
       IN  /\ peid' = [peid EXCEPT ![c] = r.eid]
           /\ eid' = r.counter
           /\ assigned' = Assigned(peid[c], r)
           /\ last' = [op |-> "register_entity"]
    /\ UNCHANGED <<protocols, kind, username, entVars, clockVars, extVars>>

\* register_entity(entity) on an entity create_entity returned
register_entity_ent(e) ==
    /\ ent[e].made
    /\ LET r == RegisterEntity(ent[e].eid, eid)
       IN  /\ ent' = [ent EXCEPT ![e].eid = r.eid]
           /\ eid' = r.counter
           /\ assigned' = Assigned(ent[e].eid, r)
           /\ last' = [op |-> "register_entity"]
    /\ UNCHANGED <<chunkEntities, pending, failed>>
    /\ UNCHANGED <<connVars, clockVars, extVars>>

RegisterEntityCall ==
    \/ \E c \in Conns : register_entity_conn(c)
    \/ \E e \in AllEnts : register_entity_ent(e)

\* ------------------------------------------------------------ update_season
\* sorted(self.seasons, key=lambda s: s.day): the seasons' indices in the
\* order of their start days; the sort is stable, so seasons with the same
\* start day keep the order of the list.
RECURSIVE SortedSeasons(_, _)
SortedSeasons(S, n) ==
    IF n = 0
    THEN <<>>
    ELSE LET prev == SortedSeasons(S, n - 1)
             le == SelectSeq(prev, LAMBDA i : S[i] <= S[n])
             gt == SelectSeq(prev, LAMBDA i : S[i] > S[n])
         IN  le \o <<n>> \o gt

\* The season update_season stores in self.world.season on day d.
UpdateSeason_strict(S, d) ==
    LET all_seasons == SortedSeasons(S, Len(S))
        past_seasons == SelectSeq(all_seasons, LAMBDA i : S[i] < d)
    IN  IF past_seasons # <<>> THEN past_seasons[Len(past_seasons)]
        ELSE IF all_seasons # <<>> THEN all_seasons[Len(all_seasons)]
        ELSE NoSeason

UpdateSeason(S, d) ==
    LET all_seasons == SortedSeasons(S, Len(S))
        past_seasons == SelectSeq(all_seasons, LAMBDA i : S[i] <= d)
    IN  IF past_seasons # <<>> THEN past_seasons[Len(past_seasons)]
        ELSE IF all_seasons # <<>> THEN all_seasons[Len(all_seasons)]
        ELSE NoSeason

\* -------------------------------------------------------------- update_time
\* while self.day > 360: self.day -= 360
WrapDay_late(d) == IF d > YearDays + 1 THEN d - YearDays ELSE d

WrapDay_geq(d) == IF d >= YearDays THEN d - YearDays ELSE d

RECURSIVE WrapDay(_)
WrapDay(d) == IF d > YearDays THEN WrapDay(d - YearDays) ELSE d

\* while self.time > 24000: self.time -= 24000; self.day += 1; (wrap the
\* day); self.update_season().  n counts the iterations done so far.
TimeLoop_once(t, d, sn, S, n) ==
    IF t > DayTicks
    THEN [time |-> t - DayTicks, day |-> WrapDay(d + 1),
          season |-> UpdateSeason(S, WrapDay(d + 1)), n |-> n + 1]
    ELSE [time |-> t, day |-> d, season |-> sn, n |-> n]

RECURSIVE TimeLoop_geq(_, _, _, _, _)
TimeLoop_geq(t, d, sn, S, n) ==
    IF t >= DayTicks
    THEN TimeLoop_geq(t - DayTicks, WrapDay(d + 1),
                      UpdateSeason(S, WrapDay(d + 1)), S, n + 1)
    ELSE [time |-> t, day |-> d, season |-> sn, n |-> n]

TimeLoop_dayEachCall(t, d, sn, S, n) ==
    [time |-> IF t > DayTicks THEN ((t - 1) % DayTicks) + 1 ELSE t,
     day |-> WrapDay(d + 1), season |-> UpdateSeason(S, WrapDay(d + 1)),
     n |-> n]

RECURSIVE TimeLoop(_, _, _, _, _)
TimeLoop(t, d, sn, S, n) ==
    IF t > DayTicks
    THEN TimeLoop(t - DayTicks, WrapDay(d + 1),
                  UpdateSeason(S, WrapDay(d + 1)), S, n + 1)
    ELSE [time |-> t, day |-> d, season |-> sn, n |-> n]

\* update_time when dt seconds have passed since self.timestamp:
\* self.time += 20 * (t - self.timestamp), then the loop.
UpdateTime(t, d, sn, S, dt) == TimeLoop(t + TicksPerSecond * dt, d, sn, S, 0)

\* ---------------------------------------------------------- register_plugins
\* uh = self.use_hooks; self.use_hooks = defaultdict(list);
\* for plugin in uh: for target in plugin.targets:
\*     self.use_hooks[target].append(plugin)
\* The table after the first i plugins of the order; a defaultdict gives the
\* empty list for a target nothing was appended to.
RECURSIVE UseHooksUpTo_prepend(_, _, _)
UseHooksUpTo_prepend(order, targets, i) ==
    IF i = 0
    THEN [t \in Targets |-> <<>>]
    ELSE LET prev == UseHooksUpTo_prepend(order, targets, i - 1)
         IN  [t \in Targets |->
                IF t \in targets[order[i]] THEN <<order[i]>> \o prev[t]
                ELSE prev[t]]

RECURSIVE UseHooksUpTo(_, _, _)
UseHooksUpTo(order, targets, i) ==
    IF i = 0
    THEN [t \in Targets |-> <<>>]
    ELSE LET prev == UseHooksUpTo(order, targets, i - 1)
         IN  [t \in Targets |->
                IF t \in targets[order[i]] THEN Append(prev[t], order[i])
                ELSE prev[t]]

RegisterPlugins(conf) == UseHooksUpTo(conf.order, conf.targets, Len(conf.order))

\* ---------------------------------------------------------------- stopFactory
\* one entry of the record of what stopFactory did, in order
Step(name, a) == [step |-> name, a |-> a]

\* W is the pair stopFactory works on: life and the time the world store
\* holds.
\* for automaton in self.automatons: automaton.stop()
RECURSIVE StopAutomatons(_, _)
StopAutomatons(W, n) ==
    IF n = 0
    THEN W
    ELSE LET prev == StopAutomatons(W, n - 1)
         IN  [prev EXCEPT !.life.automatons[n] = "stopped",
                          !.life.log = Append(@, Step("automaton.stop", n))]

\* self.time_loop.stop()
StopLoop(W) ==
    [W EXCEPT !.life.loop = "stopped",
              !.life.log = Append(@, Step("time_loop.stop", 0))]

\* self.world.time = self.time
WriteTime(W, t) ==
    [W EXCEPT !.worldTime = t,
              !.life.log = Append(@, Step("world.time", 0))]

\* self.world.stop(): saved is the time the world store holds as it stops
StopWorld(W) ==
    [W EXCEPT !.life.world = "stopped", !.life.saved = W.worldTime,
              !.life.log = Append(@, Step("world.stop", 0))]

\* stopFactory when the clock is t: the automatons, the time loop, the
\* write-back, the world store.
StopFactory_worldFirst(W, t) ==
    WriteTime(StopWorld(StopLoop(StopAutomatons(W, MaxAutomatons))), t)

StopFactory(W, t) ==
    StopWorld(WriteTime(StopLoop(StopAutomatons(W, MaxAutomatons)), t))

\* the wall-clock seconds between two update_time calls
WallDeltas == {0, 300, 1200, 2700}

\* The timekeeping startFactory starts when the world store holds the time
\* stored and the day is d: self.time = self.world.time, update_season(),
\* and LoopingCall.start(2) runs update_time at once, no time having passed.
StartClock_keepTime(stored, d, config) ==
    UpdateTime(0, d, UpdateSeason(config, d), config, 0)

StartClock(stored, d, config) ==
    UpdateTime(stored, d, UpdateSeason(config, d), config, 0)

\* startFactory: register_plugins reads the configured seasons and inverts
\* the use hooks, world.start() loads the stored time,
\* self.time = self.world.time, update_season(), LoopingCall.start(2) runs
\* update_time at once, no time having passed, and the automatons start.
startFactory(stored, config) ==
    /\ ~started
    /\ useHooks' = RegisterPlugins(hookConf)
    /\ life' = [life EXCEPT !.world = "running", !.loop = "running",
                            !.automatons = [a \in Automatons |-> "running"]]
    /\ started' = TRUE
    /\ worldTime' = stored
    /\ seasons' = config
    /\ LET r == StartClock(stored, day, config)
       IN  /\ time' = r.time
           /\ day' = r.day
           /\ season' = r.season
    /\ last' = [op |-> "startFactory"]
    /\ UNCHANGED <<decomp, connVars, eid, assigned, entVars>>
    /\ UNCHANGED <<chunks, damage, cache, dirty, hookConf>>

StartFactoryCall ==
    \E stored \in StoredTimes, config \in SeasonConfigs :
        startFactory(stored, config)

\* update_time, called by the LoopingCall dt seconds after the last call.
\* Once a reference point is marked, decomp adds up the seconds since.
update_time(dt) ==
    /\ started
    /\ life.loop = "running"
    /\ LET r == UpdateTime(time, day, season, seasons, dt)
       IN  /\ time' = r.time
           /\ day' = r.day
           /\ season' = r.season
           /\ last' = [op |-> "update_time", time0 |-> time, day0 |-> day,
                       ticks |-> TicksPerSecond * dt, n |-> r.n]
    /\ IF decomp.on
       THEN /\ decomp.acc + dt <= MaxAcc
            /\ decomp' = [decomp EXCEPT
                  !.acc = @ + dt,
                  !.parts = IF @ < 2 THEN @ + 1 ELSE @,
                  !.boundary = @ \/ (decomp.parts >= 1 /\
                                     (time = DayTicks \/ day = YearDays))]
       ELSE UNCHANGED decomp
    /\ UNCHANGED <<started, worldTime, seasons, connVars, eid, assigned,
                   entVars, extVars>>

UpdateTimeCall == \E dt \in WallDeltas : update_time(dt)

\* stopFactory, once the factory has started
stopFactory ==
    /\ started
    /\ life.world = "running"
    /\ LET r == StopFactory([life |-> life, worldTime |-> worldTime], time)
       IN  /\ life' = r.life
           /\ worldTime' = r.worldTime
    /\ last' = [op |-> "stopFactory"]
    /\ UNCHANGED <<started, seasons, time, day, season, decomp, connVars, eid,
                   assigned, entVars>>
    /\ UNCHANGED <<chunks, damage, cache, dirty, hookConf, useHooks>>

\* startFactory on a factory that was stopped: world.start() loads the time
\* the world store saved when it stopped, and the factory starts as before.
restartFactory(config) ==
    /\ started
    /\ life.world = "stopped"
    /\ useHooks' = RegisterPlugins(hookConf)
    /\ life' = [life EXCEPT !.world = "running", !.loop = "running",
                            !.automatons = [a \in Automatons |-> "running"],
                            !.log = <<>>]
    /\ worldTime' = life.saved
    /\ seasons' = config
    /\ LET r == StartClock(life.saved, day, config)
       IN  /\ time' = r.time
           /\ day' = r.day
           /\ season' = r.season
    /\ last' = [op |-> "restartFactory", stopped |-> time]
    /\ UNCHANGED <<started, decomp, connVars, eid, assigned, entVars>>
    /\ UNCHANGED <<chunks, damage, cache, dirty, hookConf>>

RestartFactoryCall == \E config \in SeasonConfigs : restartFactory(config)

\* The days on which a reference point is marked.
MarkDays == {0, 1, 359, 360}

\* Mark the clock's state as the reference point of a decomposition.
DecompMark ==
    /\ started
    /\ ~decomp.on
    /\ day \in MarkDays
    /\ decomp' = [on |-> TRUE, time |-> time, day |-> day, season |-> season,
                  acc |-> 0, parts |-> 0, boundary |-> FALSE]
    /\ last' = [op |-> "mark"]
    /\ UNCHANGED <<started, worldTime, seasons, time, day, season, connVars,
                   eid, assigned, entVars, extVars>>

\* -------------------------------------------------------------- broadcasts
\* the connections self.protocols.itervalues() yields, one per name, as the
\* number of times each connection is yielded
Values(P) == [c \in Conns |-> Cardinality({n \in DOMAIN P : P[n] = c})]

\* broadcast(packet): a write to each player of self.protocols.  K is the
\* kind of each connection.  The result: the writes to each connection.
Broadcast_everyFull(P, K) == [c \in Conns |-> IF K[c] = "full" THEN 1 ELSE 0]

Broadcast(P, K) == Values(P)

\* broadcast_for_chunk(packet, x, z) with k = (x, z): a write to each player
\* of self.protocols that has k in player.chunks.  CH is the chunks of each
\* connection.
BroadcastForChunk_noTest(P, CH, k) == Values(P)

BroadcastForChunk(P, CH, k) ==
    [c \in Conns |-> IF k \in CH[c] THEN Values(P)[c] ELSE 0]

\* the connections registered in the username table
Registered == {protocols[n] : n \in DOMAIN protocols}

\* A connection loads a chunk: the protocol adds it to its chunks once the
\* player is in the world, that is after its username is registered.
LoadChunk(c, k) ==
    /\ c \in Registered
    /\ k \notin chunks[c]
    /\ chunks' = [chunks EXCEPT ![c] = @ \cup {k}]
    /\ last' = [op |-> "loadChunk"]
    /\ UNCHANGED <<connVars, eid, assigned, entVars, clockVars>>
    /\ UNCHANGED <<damage, cache, dirty, life, hookConf, useHooks>>

LoadChunkCall == \E c \in Conns, k \in ChunkKeys : LoadChunk(c, k)

broadcast ==
    /\ last' = [op |-> "broadcast", writes |-> Broadcast(protocols, kind)]
    /\ UNCHANGED <<connVars, eid, assigned, entVars, clockVars, extVars>>

broadcast_for_chunk(k) ==
    /\ last' = [op |-> "broadcast_for_chunk", k |-> k,
                writes |-> BroadcastForChunk(protocols, chunks, k)]
    /\ UNCHANGED <<connVars, eid, assigned, entVars, clockVars, extVars>>

BroadcastForChunkCall == \E k \in ChunkKeys : broadcast_for_chunk(k)

\* ----------------------------------------------------------------- flushes
\* the blocks a damage record can hold
DamagedBlocks == {1}

\* the orders a dict of chunks can be iterated in
Enumerations(S) ==
    {s \in [1..Cardinality(S) -> S] :
        \A i, j \in 1..Cardinality(S) : s[i] = s[j] => i = j}

\* what a flush works on and leaves behind: the damage record of each
\* chunk, the damage packets built for each chunk, and the packets of each
\* chunk written to each connection
NoFlush(D) ==
    [damage |-> D,
     packets |-> [k \in ChunkKeys |-> 0],
     writes |-> [c \in Conns |-> [k \in ChunkKeys |-> 0]]]

\* flush_chunk(chunk) for the chunk at k: if chunk.is_damaged(), the
\* packet of chunk.get_damage_packet() is written to each player of
\* self.protocols that has k in player.chunks, then chunk.clear_damage().
FlushChunk_clearIfSent(S, P, CH, k) ==
    IF S.damage[k] # {}
    THEN [damage |-> IF \E c \in Conns : BroadcastForChunk(P, CH, k)[c] > 0
                     THEN [S.damage EXCEPT ![k] = {}] ELSE S.damage,
          packets |-> [S.packets EXCEPT ![k] = @ + 1],
          writes |-> [c \in Conns |->
                        [S.writes[c] EXCEPT
                            ![k] = @ + BroadcastForChunk(P, CH, k)[c]]]]
    ELSE S

FlushChunk(S, P, CH, k) ==
    IF S.damage[k] # {}
    THEN [damage |-> [S.damage EXCEPT ![k] = {}],
          packets |-> [S.packets EXCEPT ![k] = @ + 1],
          writes |-> [c \in Conns |->
                        [S.writes[c] EXCEPT
                            ![k] = @ + BroadcastForChunk(P, CH, k)[c]]]]
    ELSE S

\* flush_chunk for the first n chunks of a sequence, in order
RECURSIVE FlushChunks(_, _, _, _, _)
FlushChunks(S, P, CH, seq, n) ==
    IF n = 0
    THEN S
    ELSE FlushChunk(FlushChunks(S, P, CH, seq, n - 1), P, CH, seq[n])

\* flush_all_chunks(): flush_chunk for each chunk of
\* chain(chunk_cache.itervalues(), dirty_chunk_cache.itervalues()), where
\* primary and secondary are the orders the two dicts are iterated in.
FlushAllChunks_primaryOnly(S, P, CH, primary, secondary) ==
    FlushChunks(S, P, CH, primary, Len(primary))

FlushAllChunks(S, P, CH, primary, secondary) ==
    FlushChunks(S, P, CH, primary \o secondary, Len(primary \o secondary))

\* The world store takes a chunk into its chunk cache.
CacheChunk(k) ==
    /\ k \notin cache
    /\ cache' = cache \cup {k}
    /\ last' = [op |-> "cacheChunk"]
    /\ UNCHANGED <<connVars, eid, assigned, entVars, clockVars>>
    /\ UNCHANGED <<chunks, damage, dirty, life, hookConf, useHooks>>

\* The world store takes a chunk into its dirty chunk cache.
DirtyChunk(k) ==
    /\ k \notin dirty
    /\ dirty' = dirty \cup {k}
    /\ last' = [op |-> "dirtyChunk"]
    /\ UNCHANGED <<connVars, eid, assigned, entVars, clockVars>>
    /\ UNCHANGED <<chunks, damage, cache, life, hookConf, useHooks>>

\* A block of a loaded chunk changes: the chunk records the damage.
DamageChunk(k, b) ==
    /\ k \in cache \cup dirty
    /\ b \notin damage[k]
    /\ damage' = [damage EXCEPT ![k] = @ \cup {b}]
    /\ last' = [op |-> "damageChunk"]
    /\ UNCHANGED <<connVars, eid, assigned, entVars, clockVars>>
    /\ UNCHANGED <<chunks, cache, dirty, life, hookConf, useHooks>>

WorldCall ==
    \/ \E k \in ChunkKeys : CacheChunk(k)
    \/ \E k \in ChunkKeys : DirtyChunk(k)
    \/ \E k \in ChunkKeys, b \in DamagedBlocks : DamageChunk(k, b)

flush_chunk(k) ==
    /\ k \in cache \cup dirty
    /\ LET r == FlushChunk(NoFlush(damage), protocols, chunks, k)
       IN  /\ damage' = r.damage
           /\ last' = [op |-> "flush_chunk", k |-> k,
                       packets |-> r.packets, writes |-> r.writes]
    /\ UNCHANGED <<connVars, eid, assigned, entVars, clockVars>>
    /\ UNCHANGED <<chunks, cache, dirty, life, hookConf, useHooks>>

FlushChunkCall == \E k \in ChunkKeys : flush_chunk(k)

flush_all_chunks(primary, secondary) ==
    /\ LET r == FlushAllChunks(NoFlush(damage), protocols, chunks,
                               primary, secondary)
       IN  /\ damage' = r.damage
           /\ last' = [op |-> "flush_all_chunks",
                       packets |-> r.packets, writes |-> r.writes]
    /\ UNCHANGED <<connVars, eid, assigned, entVars, clockVars>>
    /\ UNCHANGED <<chunks, cache, dirty, life, hookConf, useHooks>>

FlushAllChunksCall ==
    \E primary \in Enumerations(cache), secondary \in Enumerations(dirty) :
        flush_all_chunks(primary, secondary)

\* -------------------------------------------------------------------- give
\* the coordinates, in pixels, and the quantities give is called with
PixelXs == {512}
PixelZs == {0}
StackSize == 64
GiveQuantities == {0, 1, 64, 65, 138, StackSize * MaxStacks}

Min(a, b) == IF a < b THEN a ELSE b

\* give(coords, block, quantity) on G, the entity state and the packets
\* broadcast so far: while quantity > 0, an Item entity of
\* min(quantity, 64) is created at the block of the pixel coordinates
\* (x // 32, z // 32), its creation packet is broadcast, and quantity
\* drops by 64.  A packet is recorded with the entity's eid and quantity,
\* with whether the entity is in chunk.entities when it is broadcast, and
\* with the writes of the broadcast.
RECURSIVE Give_geq(_, _, _, _, _, _, _)
Give_geq(G, P, K, L, x, z, q) ==
    IF q >= 0
    THEN LET e == NextEntOf(G.s.ent)
             s == CreateEntity(G.s, x \div 32, z \div 32,
                               Min(q, StackSize), L)
             packet == [eid |-> s.ent[e].eid,
                        quantity |-> s.ent[e].quantity,
                        attached |->
                            e \in s.chunkEntities[ChunkOf(s.ent[e].x,
                                                          s.ent[e].z)],
                        writes |-> Broadcast(P, K)]
         IN  Give_geq([s |-> s, sent |-> Append(G.sent, packet)],
                      P, K, L, x, z, q - StackSize)
    ELSE G

RECURSIVE Give(_, _, _, _, _, _, _)
Give(G, P, K, L, x, z, q) ==
    IF q > 0
    THEN LET e == NextEntOf(G.s.ent)
             s == CreateEntity(G.s, x \div 32, z \div 32,
                               Min(q, StackSize), L)
             packet == [eid |-> s.ent[e].eid,
                        quantity |-> s.ent[e].quantity,
                        attached |->
                            e \in s.chunkEntities[ChunkOf(s.ent[e].x,
                                                          s.ent[e].z)],
                        writes |-> Broadcast(P, K)]
         IN  Give([s |-> s, sent |-> Append(G.sent, packet)],
                  P, K, L, x, z, q - StackSize)
    ELSE G

give(x, z, q) ==
    /\ NextEnt <= MaxEnts
    /\ LET r == Give([s |-> EntityState, sent |-> <<>>], protocols, kind,
                     cache \cup dirty, x, z, q)
       IN  /\ r.s.eid <= MaxEid
           /\ ent' = r.s.ent
           /\ eid' = r.s.eid
           /\ assigned' = r.s.assigned
           /\ pending' = r.s.pending
           /\ chunkEntities' = r.s.chunkEntities
           /\ last' = [op |-> "give", q |-> q, first |-> NextEnt,
                       sent |-> r.sent]
    /\ UNCHANGED <<failed, connVars, clockVars, extVars>>

GiveCall ==
    \E x \in PixelXs, z \in PixelZs, q \in GiveQuantities : give(x, z, q)

CacheChunkCall == \E k \in ChunkKeys : CacheChunk(k)

\* --------------------------------------------------- regions and entities
\* A chunk request fails: its Deferred fires with a failure, the callbacks
\* create_entity or destroy_entity added are skipped, and no errback was
\* added, so nothing else runs.
ChunkFailed(req) ==
    /\ req \in pending
    /\ pending' = pending \ {req}
    /\ failed' = failed \cup {req}
    /\ last' = [op |-> "chunk_failed"]
    /\ UNCHANGED <<ent, eid, chunkEntities, assigned>>
    /\ UNCHANGED <<connVars, clockVars, extVars>>

ChunkFailedCall == \E req \in pending : ChunkFailed(req)

\* An entity moves to another block: entity.location.x changes.  The
\* chunks' entity sets are not touched.
MoveEntity(e, x) ==
    /\ ent[e].made
    /\ ~ent[e].destroyed
    /\ x # ent[e].x
    /\ ent' = [ent EXCEPT ![e].x = x]
    /\ last' = [op |-> "move"]
    /\ UNCHANGED <<eid, chunkEntities, pending, failed, assigned>>
    /\ UNCHANGED <<connVars, clockVars, extVars>>

MoveEntityCall == \E e \in AllEnts, x \in BlockXs : MoveEntity(e, x)

\* ---------------------------------------------------------- specifications
\* The username table: connections are accepted and name themselves.
Next == buildProtocol \/ SetUsernameCall

Spec == Init /\ [][Next]_vars

\* The entity directory: connections and entities take ids.
NextEntity ==
    \/ buildProtocol
    \/ CreateEntityCall
    \/ DestroyEntityCall
    \/ ChunkLoadedCall
    \/ RegisterEntityCall

SpecEntity == Init /\ [][NextEntity]_vars

\* The clock: the factory starts and the LoopingCall updates the time.
NextClock == StartFactoryCall \/ UpdateTimeCall

SpecClock == Init /\ [][NextClock]_vars

\* The clock, with a reference point to compare one update with several.
NextDecomp == StartFactoryCall \/ UpdateTimeCall \/ DecompMark

SpecDecomp == Init /\ [][NextDecomp]_vars

\* Start and stop: the factory starts, the clock runs, the factory stops.
NextLife == StartFactoryCall \/ UpdateTimeCall \/ stopFactory

SpecLife == Init /\ [][NextLife]_vars

\* The use hooks: the factory starts under any configuration of them.
NextHooks == StartFactoryCall

SpecHooks == InitHooks /\ [][NextHooks]_vars

\* The broadcasts: connections name themselves, load chunks and are written
\* to.
NextBroadcast ==
    \/ buildProtocol
    \/ SetUsernameCall
    \/ LoadChunkCall
    \/ broadcast
    \/ BroadcastForChunkCall

SpecBroadcast == Init /\ [][NextBroadcast]_vars

\* The flushes: connections name themselves, each with a name of its own,
\* and load chunks, chunks are cached and damaged, and the damage is
\* flushed.
NextFlush ==
    \/ buildProtocol
    \/ JoinCall
    \/ LoadChunkCall
    \/ WorldCall
    \/ FlushChunkCall
    \/ FlushAllChunksCall

SpecFlush == Init /\ [][NextFlush]_vars

\* Giving: connections name themselves, the world store loads chunks, items
\* are given and the chunk requests complete.
NextGive ==
    \/ buildProtocolFull
    \/ JoinCall
    \/ CacheChunkCall
    \/ GiveCall
    \/ ChunkLoadedCall

SpecGive == Init /\ [][NextGive]_vars

\* Stop and start again: the factory starts, the clock runs, the factory
\* stops and is started again.
NextRestart ==
    \/ StartFactoryCall
    \/ UpdateTimeCall
    \/ stopFactory
    \/ RestartFactoryCall

SpecRestart == Init /\ [][NextRestart]_vars

\* Regions and entities: entities are created, move and are destroyed, and
\* the chunk requests complete, in any order, or fail.
NextRegion ==
    \/ CreateEntityCall
    \/ MoveEntityCall
    \/ DestroyEntityCall
    \/ ChunkLoadedCall
    \/ ChunkFailedCall

SpecRegion == Init /\ [][NextRegion]_vars

\* ------------------------------------------------------------------ claims
FullConns == {c \in Conns : kind[c] = "full"}
MadeEnts == {e \in AllEnts : ent[e].made}

\* C1: a set_username call that returns False changes nothing: the username
\* table, every connection's username field and the rest of the factory's
\* state are what they were before the call.
C1_FailedSetUsernameChangesNothing ==
    [][(last'.op = "set_username" /\ ~last'.ret)
        => /\ protocols' = protocols
           /\ username' = username
           /\ UNCHANGED <<kind, peid, eid, entVars, clockVars, extVars>>]_vars

\* a call failed for a connection that is registered under another name
C1_Witness ==
    /\ last.op = "set_username"
    /\ ~last.ret
    /\ last.old # NoName
    /\ last.old # last.n
    /\ Holder(protocols, last.old) = last.c

\* C2: after set_username(c, N) returned True, N maps to c and to no other
\* connection, c.username is N, and the name c held before (if another) is
\* free: it is in the table no more and any other connection's
\* set_username for it succeeds.
C2_SuccessInstallsNewAndFreesOld ==
    (last.op = "set_username" /\ last.ret)
        => /\ last.n \in DOMAIN protocols
           /\ {c \in Conns : Holder(protocols, last.n) = c} = {last.c}
           /\ username[last.c] = last.n
           /\ (last.old # NoName /\ last.old # last.n)
                => /\ last.old \notin DOMAIN protocols
                   /\ \A c \in FullConns \ {last.c} :
                        SetUsername(protocols, username[c], c, last.old).ret

\* a connection renamed itself while another connection exists
C2_Witness ==
    /\ last.op = "set_username"
    /\ last.ret
    /\ last.old # NoName
    /\ last.old # last.n
    /\ FullConns \ {last.c} # {}

\* C3 as claimed: set_username(c, N) fails exactly when N is registered to
\* a connection other than c.
C3_FailsIffHeldByAnother ==
    last.op = "set_username"
        => (~last.ret <=> (last.holder # NoConn /\ last.holder # last.c))

\* C3 amended: set_username(c, N) fails exactly when N is in the table,
\* whichever connection holds it, c itself included.
C3_FailsIffNameTaken ==
    last.op = "set_username" => (~last.ret <=> last.holder # NoConn)

\* a connection asked for the name it already holds, and was refused
C3_Witness ==
    /\ last.op = "set_username"
    /\ last.holder = last.c
    /\ ~last.ret

\* C4: the ids register_entity assigns, in call order over connections and
\* entities alike, are strictly increasing and none is zero.
C4_IdsStrictlyIncreasing ==
    \A i \in 1..Len(assigned) :
        /\ assigned[i] # NoEid
        /\ assigned[i] > 0
        /\ i > 1 => assigned[i - 1] < assigned[i]

\* ids went to a connection, then an entity, then a connection
C4_Witness ==
    /\ Len(assigned) >= 3
    /\ 1 \in MadeEnts
    /\ {1, 2} \subseteq FullConns
    /\ peid[1] < ent[1].eid
    /\ ent[1].eid < peid[2]

\* C5: no two distinct objects that got their id from the factory hold the
\* same eid, destroyed entities included.
C5_IdsUnique ==
    /\ \A c1, c2 \in FullConns : c1 # c2 => peid[c1] # peid[c2]
    /\ \A e1, e2 \in MadeEnts : e1 # e2 => ent[e1].eid # ent[e2].eid
    /\ \A c \in FullConns, e \in MadeEnts : peid[c] # ent[e].eid

\* an entity was destroyed and discarded, and objects were created after it
C5_Witness ==
    /\ 1 \in MadeEnts
    /\ ent[1].destroyed
    /\ pending = {}
    /\ \A k \in ChunkKeys : 1 \notin chunkEntities[k]
    /\ 2 \in MadeEnts
    /\ \E c \in FullConns : peid[c] > ent[1].eid

\* the tick counter update_time reduces: the time before plus the ticks added
LastSum == last.time0 + last.ticks

\* the day counter after one increment of day d and the wrap that follows
\* it, as the amended claims state it: d + 1, and 1 after 360
NextDay(d) == IF d = YearDays THEN 1 ELSE d + 1

\* C6 as claimed: after every clock update 0 <= time < 24000 and
\* 0 <= day < 360.
C6_ClockInHalfOpenRanges ==
    last.op = "update_time"
        => /\ 0 <= time /\ time < DayTicks
           /\ 0 <= day /\ day < YearDays

\* C6 amended: after every clock update 0 <= time <= 24000 and
\* 0 <= day <= 360, both upper ends included.
C6_ClockInClosedRanges ==
    last.op = "update_time"
        => /\ 0 <= time /\ time <= DayTicks
           /\ 0 <= day /\ day <= YearDays

\* an update left the clock on both upper ends
C6_Witness ==
    /\ last.op = "update_time"
    /\ last.ticks > 0
    /\ time = DayTicks
    /\ day = YearDays

\* C7 as claimed: from day 359, an update that increments the day once
\* leaves the day counter at 0.
C7_Day359WrapsToZero ==
    (last.op = "update_time" /\ last.day0 = YearDays - 1 /\ last.n = 1)
        => day = 0

\* C7 amended: from day 359, an update that increments the day once leaves
\* the day counter at 360; it is the increment from 360 that wraps, to 1.
C7_Day359GoesTo360 ==
    (last.op = "update_time" /\ last.n = 1)
        => /\ last.day0 = YearDays - 1 => day = YearDays
           /\ last.day0 = YearDays => day = 1

\* an update incremented the day once from 359
C7_Witness ==
    /\ last.op = "update_time"
    /\ last.day0 = YearDays - 1
    /\ last.n = 1
    /\ day # last.day0

\* C8 as claimed: an update that takes the tick counter from below 24000
\* to 24000 or more, and less than 48000, increments the day by exactly 1
\* and leaves time in [0, 24000); landing on 24000 is such a crossing.
C8_CrossingIncludesLanding ==
    (/\ last.op = "update_time"
     /\ last.time0 < DayTicks
     /\ DayTicks <= LastSum
     /\ LastSum < 2 * DayTicks)
        => /\ last.n = 1
           /\ day = NextDay(last.day0)
           /\ 0 <= time /\ time < DayTicks

\* C8 amended: an update that takes the tick counter above 24000 and to at
\* most 48000 increments the day by exactly 1 and leaves time in
\* (0, 24000]; an update that lands on 24000 exactly is no crossing: the
\* day stays and time is 24000.
C8_CrossingExcludesLanding ==
    last.op = "update_time"
        => /\ (DayTicks < LastSum /\ LastSum <= 2 * DayTicks)
                => /\ last.n = 1
                   /\ day = NextDay(last.day0)
                   /\ time = LastSum - DayTicks
                   /\ 0 < time /\ time <= DayTicks
           /\ LastSum = DayTicks
                => /\ last.n = 0
                   /\ day = last.day0
                   /\ time = DayTicks

\* an update landed the tick counter on 24000 exactly
C8_Witness ==
    /\ last.op = "update_time"
    /\ last.ticks > 0
    /\ LastSum = DayTicks
    /\ time = DayTicks

\* C9: the clock after several updates is the clock one update by the sum
\* of their deltas gives from the reference point: same time, day and
\* active season.
C9_DecompositionInvariant ==
    decomp.on
        => LET one == UpdateTime(decomp.time, decomp.day, decomp.season,
                                 seasons, decomp.acc)
           IN  /\ time = one.time
               /\ day = one.day
               /\ season = one.season

\* two or more updates, an intermediate state on a boundary, days crossed
C9_Witness ==
    /\ decomp.on
    /\ decomp.parts >= 2
    /\ decomp.boundary
    /\ decomp.acc > 2 * (DayTicks \div TicksPerSecond)
    /\ day # decomp.day
    /\ season # decomp.season

\* the start days of the configured seasons that are not after day d
PastDays(d) == {seasons[i] : i \in {j \in 1..Len(seasons) : seasons[j] <= d}}
AllDays == {seasons[i] : i \in 1..Len(seasons)}
MaxOf(D) == CHOOSE m \in D : \A x \in D : x <= m

\* C10: once started, the active season is a configured season with the
\* greatest start day not after the current day; if every season starts
\* after the current day, one with the greatest start day of all; if none
\* is configured, None.
C10_ActiveSeasonRule ==
    started
        => IF seasons = <<>> THEN season = NoSeason
           ELSE /\ season \in 1..Len(seasons)
                /\ seasons[season] =
                      IF PastDays(day) # {} THEN MaxOf(PastDays(day))
                      ELSE MaxOf(AllDays)

\* after updates, a day before every configured start: the last season of
\* the cycle is active
C10_Witness ==
    /\ last.op = "update_time"
    /\ seasons = <<180, 90>>
    /\ day = 5
    /\ season = 1

\* C18: buildProtocol for a banned address returns a kick-only connection
\* and changes no global connection state: the username table, every
\* username and the id counter stay, and the connection gets no entity id.
C18_BannedChangesNothing ==
    [][(last'.op = "buildProtocol" /\ last'.banned)
        => /\ kind'[NextConn] = "banned"
           /\ peid'[NextConn] = NoEid
           /\ protocols' = protocols
           /\ username' = username
           /\ eid' = eid
           /\ assigned' = assigned]_vars

\* a banned address connected while names and ids were in use
C18_Witness ==
    /\ last.op = "buildProtocol"
    /\ last.banned
    /\ protocols # <<>>
    /\ eid > FirstEid
    /\ \E c \in Conns : kind[c] = "banned"

\* C19: every full connection holds a non-zero eid from the moment
\* buildProtocol returns it, so every connection in the username table has
\* a non-zero eid.
C19_FullConnectionsHaveIds ==
    /\ \A c \in FullConns : peid[c] # NoEid
    /\ \A n \in DOMAIN protocols :
          /\ protocols[n] \in FullConns
          /\ peid[protocols[n]] # NoEid

\* a connection just returned, not yet named, beside a named one
C19_Witness ==
    /\ last.op = "buildProtocol"
    /\ ~last.banned
    /\ protocols # <<>>
    /\ \E c \in FullConns : username[c] = NoName /\ peid[c] # NoEid

\* C17: stopFactory stops every automaton, then the time loop, then writes
\* the clock into the world store, then stops the world store; the time the
\* world store holds as it stops is the clock's value, which no update
\* changes afterwards.
C17_StopOrder ==
    life.world = "stopped"
        => /\ Len(life.log) = MaxAutomatons + 3
           /\ \A i \in 1..MaxAutomatons : life.log[i].step = "automaton.stop"
           /\ {life.log[i].a : i \in 1..MaxAutomatons} = Automatons
           /\ life.log[MaxAutomatons + 1].step = "time_loop.stop"
           /\ life.log[MaxAutomatons + 2].step = "world.time"
           /\ life.log[MaxAutomatons + 3].step = "world.stop"
           /\ \A a \in Automatons : life.automatons[a] = "stopped"
           /\ life.loop = "stopped"
           /\ life.saved = time
           /\ worldTime = time

\* the factory stopped after the clock had moved off the stored time
C17_Witness ==
    /\ last.op = "stopFactory"
    /\ life.world = "stopped"
    /\ day > 0
    /\ time # 0
    /\ life.saved = time

\* the position of plugin p in the configured order
PosOf(p) == CHOOSE i \in 1..Len(hookConf.order) : hookConf.order[i] = p

\* the configured plugins that declared target t
Declared(t) ==
    {hookConf.order[i] : i \in {j \in 1..Len(hookConf.order) :
                                  t \in hookConf.targets[hookConf.order[j]]}}

\* C20: after register_plugins the entry for a target lists exactly the
\* configured plugins that declared it, each once, in the order of
\* registration; a target nothing declared has the empty list.
C20_UseHooksInverted ==
    started
        => \A t \in Targets :
            /\ {useHooks[t][i] : i \in 1..Len(useHooks[t])} = Declared(t)
            /\ Len(useHooks[t]) = Cardinality(Declared(t))
            /\ \A i, j \in 1..Len(useHooks[t]) :
                  i < j => PosOf(useHooks[t][i]) < PosOf(useHooks[t][j])
            /\ Declared(t) = {} => useHooks[t] = <<>>

\* two plugins share a target, one of them has another to itself
C20_Witness ==
    /\ started
    /\ hookConf.order = <<2, 1>>
    /\ hookConf.targets[1] = {1}
    /\ hookConf.targets[2] = {1, 2}
    /\ useHooks[1] = <<2, 1>>
    /\ useHooks[2] = <<2>>


\* C13: broadcast_for_chunk(packet, x, z) writes the packet once to each
\* registered connection whose chunks contain (x, z) and to no other
\* connection: none with (x, z) missing from its chunks, none with no
\* chunk at all.
C13_ChunkBroadcastToSubscribers ==
    last.op = "broadcast_for_chunk" =>
        \A c \in Conns :
            last.writes[c] =
                IF c \in Registered /\ last.k \in chunks[c] THEN 1 ELSE 0

\* a chunk broadcast that one registered connection gets and another
\* registered connection, with another chunk loaded, does not
C13_Witness ==
    /\ last.op = "broadcast_for_chunk"
    /\ \E c, d \in Registered :
        /\ last.k \in chunks[c] /\ last.writes[c] = 1
        /\ chunks[d] # {} /\ last.k \notin chunks[d] /\ last.writes[d] = 0

\* C14 as stated: broadcast(packet) writes the packet to every full
\* connection buildProtocol returned, whether its username is registered
\* yet or not.
C14_BroadcastToEveryFull ==
    last.op = "broadcast" => \A c \in FullConns : last.writes[c] = 1

\* C14, amended: broadcast(packet) writes the packet once to each
\* connection registered in the username table and to no other; a full
\* connection whose username is not registered yet gets nothing.
C14_BroadcastToRegistered ==
    last.op = "broadcast" =>
        \A c \in Conns : last.writes[c] = IF c \in Registered THEN 1 ELSE 0

\* a broadcast with one full connection registered and one not yet
C14_Witness ==
    /\ last.op = "broadcast"
    /\ \E c, d \in FullConns :
        /\ c \in Registered /\ last.writes[c] = 1
        /\ d \notin Registered /\ last.writes[d] = 0

\* C15: flush_chunk(chunk) of a damaged chunk builds one damage packet,
\* writes it once to each connection that has the chunk loaded and to no
\* other, and leaves the damage record empty, also when no connection has
\* the chunk loaded; flush_chunk of an undamaged chunk writes nothing and
\* changes no state.
C15_FlushChunk ==
    [][last'.op = "flush_chunk" =>
        LET k == last'.k
        IN  IF damage[k] # {}
            THEN /\ last'.packets[k] = 1
                 /\ \A c \in Conns :
                        last'.writes[c][k] = IF k \in chunks[c] THEN 1 ELSE 0
                 /\ \A c \in Conns, j \in ChunkKeys \ {k} :
                        last'.writes[c][j] = 0
                 /\ damage' = [damage EXCEPT ![k] = {}]
                 /\ UNCHANGED <<chunks, cache, dirty, connVars>>
            ELSE /\ \A j \in ChunkKeys : last'.packets[j] = 0
                 /\ \A c \in Conns, j \in ChunkKeys : last'.writes[c][j] = 0
                 /\ UNCHANGED <<damage, chunks, cache, dirty, connVars>>]_vars

\* a flush_chunk of a damaged chunk that no connection has loaded, while a
\* connection has another chunk loaded: no write, the record empty
C15_Witness ==
    /\ last.op = "flush_chunk"
    /\ last.packets[last.k] = 1
    /\ damage[last.k] = {}
    /\ \A c \in Conns : last.k \notin chunks[c] /\ last.writes[c][last.k] = 0
    /\ \E c \in Conns : chunks[c] # {}

\* C16: after flush_all_chunks() no chunk of the chunk cache or of the
\* dirty chunk cache is damaged, and at most one damage packet was built
\* for each chunk and written at most once to each connection.
C16_FlushAllChunks ==
    last.op = "flush_all_chunks" =>
        /\ \A k \in cache \cup dirty : damage[k] = {}
        /\ \A k \in ChunkKeys : last.packets[k] <= 1
        /\ \A c \in Conns, k \in ChunkKeys : last.writes[c][k] <= 1

\* a flush_all_chunks that flushed a damaged chunk held in both caches and
\* another held in the dirty cache only, each written once to a connection
C16_Witness ==
    /\ last.op = "flush_all_chunks"
    /\ \E k \in cache \cap dirty, j \in dirty \ cache :
        /\ last.packets[k] = 1 /\ last.packets[j] = 1
        /\ \E c \in Conns : last.writes[c][k] = 1

\* C11 as stated: in every give, the creation packet of an entity is
\* broadcast only once chunk.entities holds the entity, also when the
\* chunk request completes later than the call or never.
C11_CreationPacketAfterAttach ==
    last.op = "give" => \A i \in 1..Len(last.sent) : last.sent[i].attached

\* ceil(q / 64)
StacksOf(q) == (q + StackSize - 1) \div StackSize

RECURSIVE SumQuantities(_, _)
SumQuantities(sent, n) ==
    IF n = 0 THEN 0 ELSE SumQuantities(sent, n - 1) + sent[n].quantity

\* C12: give(position, key, q) with q >= 0 creates ceil(q / 64) pickup
\* entities, each of a quantity from 1 to 64, all but the last of 64, the
\* quantities summing to q, and broadcasts one creation packet for each, in
\* order, to the registered connections; q = 0 creates and broadcasts
\* nothing.
C12_GiveSplitsIntoStacks ==
    last.op = "give" =>
        LET n == Len(last.sent)
        IN  /\ n = StacksOf(last.q)
            /\ NextEnt = last.first + n
            /\ SumQuantities(last.sent, n) = last.q
            /\ \A i \in 1..n :
                LET e == last.first + i - 1
                IN  /\ ent[e].made
                    /\ ent[e].quantity \in 1..StackSize
                    /\ i < n => ent[e].quantity = StackSize
                    /\ last.sent[i].eid = ent[e].eid
                    /\ last.sent[i].quantity = ent[e].quantity
                    /\ \A c \in Conns :
                        last.sent[i].writes[c] =
                            IF c \in Registered THEN 1 ELSE 0

\* give of 138 made three pickups of 64, 64 and 10 and broadcast each to a
\* registered connection
C12_Witness ==
    /\ last.op = "give"
    /\ last.q = 138
    /\ Len(last.sent) = 3
    /\ last.sent[1].quantity = 64
    /\ last.sent[2].quantity = 64
    /\ last.sent[3].quantity = 10
    /\ Registered # {}

\* give of 0 made no entity and broadcast nothing
C12_WitnessZero ==
    /\ last.op = "give"
    /\ last.q = 0
    /\ last.sent = <<>>
    /\ NextEnt = last.first

\* C21: register_entity on an object that already has a non-zero eid, a
\* connection buildProtocol returned or an entity create_entity returned,
\* changes neither the eid of any object nor the factory's id counter, and
\* hands out no id, however many times it is called.
C21_RegisterEntityIdempotent ==
    [][last'.op = "register_entity" =>
        /\ eid' = eid
        /\ peid' = peid
        /\ \A e \in AllEnts : ent'[e].eid = ent[e].eid
        /\ assigned' = assigned]_vars

\* register_entity was called again while a connection and an entity both
\* hold ids, and the counter is still the last id handed out
C21_Witness ==
    /\ last.op = "register_entity"
    /\ \E c \in FullConns : peid[c] # NoEid
    /\ \E e \in MadeEnts : ent[e].eid # NoEid
    /\ eid = assigned[Len(assigned)]

\* C22: startFactory sets the clock to the time the world store holds,
\* before any later clock update, and a startFactory after a stopFactory
\* reads the time stopFactory stored: the time after the restart is the
\* time at the shutdown.
C22_TimeSurvivesRestart ==
    /\ last.op = "startFactory" => time = worldTime
    /\ last.op = "restartFactory" =>
        /\ time = last.stopped
        /\ time = life.saved
        /\ time = worldTime

\* the factory was started again after the clock had moved off every time
\* the world store can start with
C22_Witness ==
    /\ last.op = "restartFactory"
    /\ time \notin StoredTimes
    /\ time = last.stopped
    /\ day > 0

\* the requests of entity e in a set of requests
RequestsOf(R, e) == {req \in R : req.e = e}

\* the chunks whose entity set holds e
ChunksHolding(e) == {k \in ChunkKeys : e \in chunkEntities[k]}

\* C23: when the chunk request of create_entity fails, the caller still has
\* the entity, the entity keeps the id it was given, the counter is not
\* rolled back (it still counts every id handed out), and the entity is in
\* no chunk's entity set.
C23_FailedRequestLeavesEntityDetached ==
    \A req \in failed :
        req.cb = "add" =>
            /\ ent[req.e].made
            /\ ent[req.e].eid # NoEid
            /\ ent[req.e].eid <= eid
            /\ eid = FirstEid + Len(assigned)
            /\ \E i \in 1..Len(assigned) : assigned[i] = ent[req.e].eid
            /\ ChunksHolding(req.e) = {}

\* the request of one entity failed and the request of a later entity, for
\* the same chunk, was delivered
C23_Witness ==
    \E req \in failed :
        /\ req.cb = "add"
        /\ \E e \in MadeEnts :
            /\ ent[e].eid > ent[req.e].eid
            /\ e \in chunkEntities[req.chunk]

\* C24 as stated: after create_entity(e) and destroy_entity(e), once both
\* chunk requests have been delivered, e is in no chunk's entity set, in
\* whatever order they were delivered and whether or not e moved to another
\* chunk in between.
C24_DestroyedEntityDetached ==
    \A e \in MadeEnts :
        (/\ ent[e].destroyed
         /\ RequestsOf(pending, e) = {}
         /\ RequestsOf(failed, e) = {})
            => ChunksHolding(e) = {}

\* an entity that moved to another chunk before it was destroyed: both
\* requests were delivered and the chunk it was created in still holds it
C24_MovedEntityLeftBehind ==
    \E e \in MadeEnts :
        /\ ent[e].destroyed
        /\ RequestsOf(pending, e) = {}
        /\ RequestsOf(failed, e) = {}
        /\ ChunksHolding(e) # {}
        /\ ChunkOf(ent[e].x, ent[e].z) \notin ChunksHolding(e)

\* C25: after any sequence of buildProtocol and set_username calls, every
\* entry name -> c of the username table has c.username = name, and no
\* connection is in the table under two names.
C25_TableConsistent ==
    /\ \A n \in DOMAIN protocols : username[protocols[n]] = n
    /\ \A n, m \in DOMAIN protocols : protocols[n] = protocols[m] => n = m

\* two connections are in the table, one of them under its second name
C25_Witness ==
    /\ Cardinality(DOMAIN protocols) = 2
    /\ last.op = "set_username"
    /\ last.ret
    /\ last.old # NoName
    /\ protocols[last.n] = last.c
    /\ last.old \notin DOMAIN protocols

\* C26: an update_time that does not take the tick counter above 24000
\* adds the ticks and leaves the day and the active season as they were;
\* the active season changes only in an update that wraps a day or in
\* startFactory.
C26_NoCrossingKeepsDayAndSeason ==
    [][/\ (last'.op = "update_time" /\ time + last'.ticks <= DayTicks)
            => /\ time' = time + last'.ticks
               /\ day' = day
               /\ season' = season
       /\ (season' # season \/ day' # day)
            => \/ last'.op = "startFactory"
               \/ last'.op = "update_time" /\ last'.n >= 1]_vars

\* an update moved the tick counter within a day that is not the first,
\* with a season active
C26_Witness ==
    /\ last.op = "update_time"
    /\ last.ticks > 0
    /\ last.n = 0
    /\ time = last.time0 + last.ticks
    /\ day = last.day0
    /\ day > 0
    /\ season # NoSeason
====
